---- MODULE Spec2Model ----
(***************************************************************************)
(* Model of the two lint-suppression scanners, scan_eslint_ignore.py       *)
(* (Dialect A) and scan_pylint_ignore.py (Dialect B): the line-by-line     *)
(* find_ignores loops, the .eslintignore scanner, the policy gate          *)
(* (catch_bad_ignores), export and main.                                   *)
(*                                                                         *)
(* A source line is a record [kind, col0, rule, text]:                     *)
(*   kind  - the shape of the line (see ALines / BLines / ELines);         *)
(*   col0  - TRUE iff the raw line has no leading whitespace;              *)
(*   rule  - the rule list / issue name written in a directive;            *)
(*   text  - the free comment text carried by the line.                    *)
(* The regular expressions of the source are modelled by what they match   *)
(* on these shapes and by the groups they capture.                         *)
(***************************************************************************)
EXTENDS Integers, Sequences, FiniteSets, TLC

VARIABLES
    dialect,      \* "A" (scan_eslint_ignore.py), "B" (scan_pylint_ignore.py);
                  \* "E" is scan_eslint_ignore_file of scan_eslint_ignore.py
    lines,        \* find_ignores: the lines read from the file
    line_number,  \* find_ignores: number of lines consumed from gen
    ignore,       \* find_ignores: the buffered record, <<>> for None
    ignores,      \* find_ignores: the output list
    scan_pc,      \* find_ignores: "loop" | "returned" | "idle"
    pc,           \* main: position in main()
    args,         \* main: parsed arguments and the file system they meet
    eslintignore, \* main: the lines of the .eslintignore file
    ignores_in_file, \* main: result of scan_eslint_ignore_file
    all_ignores,  \* main: the aggregate list `ignores`
    file_count,   \* main: file_count
    visited,      \* main: the files handed to find_ignores so far, in order
    listed,       \* catch_bad_ignores: records logged as unjustified
    report,       \* export: [console |-> blocks printed, csv |-> rows written]
    exit_code     \* process exit status, -1 while running

vars == <<dialect, lines, line_number, ignore, ignores, scan_pc, pc, args,
          eslintignore, ignores_in_file, all_ignores, file_count, visited,
          listed, report, exit_code>>

scan_vars == <<lines, line_number, ignore, ignores, scan_pc>>
main_vars == <<pc, args, eslintignore, ignores_in_file, all_ignores,
               file_count, visited, listed, report, exit_code>>

-----------------------------------------------------------------------------
(* Bounds of the model.                                                    *)

\* longest file scanned line by line
MaxLines == 3
\* most paths the directory traversal of main yields
MaxFiles == 2
\* longest file met by main
MaxFileLines == 2

-----------------------------------------------------------------------------
(* Python values.                                                          *)

\* Python's None where a str is expected (Optional[str])
PyNone == "<None>"
\* Python's None where a List[str] is expected
NoneList == <<PyNone>>

\* bool(x) of an Optional[str]
TruthyStr(s) == s # PyNone /\ s # ""
\* bool(x) of an Optional[List[str]]
TruthyList(l) == l # NoneList /\ l # <<>>

\* a + " " + b, without the blank when either side is empty (the patterns
\* swallow surrounding whitespace and the code strips the captured group)
Cat(a, b) == IF a = "" THEN b ELSE IF b = "" THEN a ELSE a \o " " \o b

\* seq[i] with Python's index rules: a negative index counts from the end
PyIndex(seq, i) == IF i >= 0 THEN seq[i + 1] ELSE seq[Len(seq) + i + 1]

\* str.strip(): removes the leading (and trailing) whitespace of a line
strip(line) == [line EXCEPT !.col0 = TRUE]

\* free comment texts that occur in the files
Texts == {"why", "(No reason provided)"}
\* same-line remainders made of characters the eslint rule group accepts
RuleTexts == {"legacy"}

Line(k, c, r, t) == [kind |-> k, col0 |-> c, rule |-> r, text |-> t]

-----------------------------------------------------------------------------
(* Dialect B: lines of a Python file.                                      *)
(*   code        x = 1                                                     *)
(*   blank                                                                 *)
(*   hash        #                      (a comment with no text)           *)
(*   comment     # <text>               (col0 FALSE: indented)             *)
(*   pylint      # pylint: disable-next=<rule>[ <text>]                    *)
(*   codepylint  x = 1  # pylint: disable=<rule>[ <text>]                  *)

BLines ==
    {Line("code", TRUE, "", ""), Line("blank", TRUE, "", ""),
     Line("hash", TRUE, "", "")}
    \cup {Line("comment", c, "", t) : c \in BOOLEAN, t \in Texts}
    \cup {Line(k, TRUE, "invalid-name", t) :
            k \in {"pylint", "codepylint"}, t \in Texts \cup {""}}

\* PYLINT_IGNORE_PATTERN.match(line): <<>> for no match, else <<groups>>
\* group 1 the issue, group 2 the same-line reason or None
PYLINT_IGNORE_PATTERN(line) ==
    IF line.kind \in {"pylint", "codepylint"}
    THEN <<[g1 |-> line.rule,
            g2 |-> IF line.text = "" THEN PyNone ELSE line.text]>>
    ELSE <<>>

\* PYTHON_COMMENT_PATTERN.match(line): <<>> for no match, else <<group 1>>.
\* match() anchors at the first character, and (.+) needs some text.
PYTHON_COMMENT_PATTERN(line) ==
    IF line.col0 /\ line.kind = "comment" THEN <<line.text>>
    ELSE IF line.col0 /\ line.kind = "pylint"
    THEN <<Cat("pylint: disable-next=" \o line.rule, line.text)>>
    ELSE <<>>

\* get_reason with the two appends exchanged: same-line reason first
get_reason_B_SameFirst(rematch, n, ls) ==
    LET previous_line == PyIndex(ls, n - 2)
        comment_match == PYTHON_COMMENT_PATTERN(previous_line)
        reasons1 == IF TruthyStr(rematch[1].g2) THEN <<rematch[1].g2>> ELSE <<>>
    IN  IF comment_match # <<>> THEN Append(reasons1, comment_match[1])
        ELSE reasons1

\* scan_pylint_ignore.get_reason
get_reason_B(rematch, n, ls) ==
    LET previous_line == PyIndex(ls, n - 2)
        comment_match == PYTHON_COMMENT_PATTERN(previous_line)
        reasons1 == IF comment_match # <<>> THEN <<comment_match[1]>> ELSE <<>>
    IN  IF TruthyStr(rematch[1].g2) THEN Append(reasons1, rematch[1].g2)
        ELSE reasons1

\* Ignore(filepath, line_number, line_number, group(1), get_reason(...))
NewIgnore_B(filepath, n, rematch, ls) ==
    [filepath |-> filepath, start |-> n, end |-> n, issue |-> rematch[1].g1,
     reason |-> get_reason_B(rematch, n, ls)]

\* a continuation that moves the end one line too far
Continue_B_PastLine(ig, n, text) ==
    [ig EXCEPT !.end = n + 1, !.reason = Append(@, text)]

\* the continuation branch: ignore.end = line_number; ignore.reason.append(..)
Continue_B(ig, n, text) ==
    [ig EXCEPT !.end = n, !.reason = Append(@, text)]

\* an append that drops what the list held before
Flush_KeepLast(st) ==
    IF st.ignore # <<>> THEN <<st.ignore[1]>> ELSE st.ignores

\* `if ignore is not None: ignores.append(ignore)`
Flush(st) ==
    IF st.ignore # <<>> THEN Append(st.ignores, st.ignore[1]) ELSE st.ignores

\* one iteration of the while loop of scan_pylint_ignore.find_ignores on
\* line n; st = [ignore, ignores]
ScanLine_B(filepath, ls, n, st) ==
    LET line == strip(ls[n])
        rematch == PYLINT_IGNORE_PATTERN(line)
        comment == PYTHON_COMMENT_PATTERN(line)
    IN  IF rematch # <<>>
        THEN [ignores |-> Flush(st),
              ignore |-> <<NewIgnore_B(filepath, n, rematch, ls)>>]
        ELSE IF comment # <<>> /\ st.ignore # <<>>
        THEN [ignores |-> st.ignores,
              ignore |-> <<Continue_B(st.ignore[1], n, comment[1])>>]
        ELSE IF st.ignore # <<>>
        THEN [ignores |-> Append(st.ignores, st.ignore[1]), ignore |-> <<>>]
        ELSE st

\* a StopIteration handler that breaks without appending the buffered record
EndOfFile_NoFlush(st) == [ignores |-> st.ignores, ignore |-> st.ignore]

\* the StopIteration handler of find_ignores (both scripts): the buffered
\* record is appended; the local variable keeps it until the return
EndOfFile(st) == [ignores |-> Flush(st), ignore |-> st.ignore]

-----------------------------------------------------------------------------
(* Dialect A: lines of a JavaScript / TypeScript file.                     *)
(*   code      foo();                                                      *)
(*   blank                                                                 *)
(*   comment   // <text>                                                   *)
(*   block     /* eslint-disable <rule> */                                 *)
(*   inline    // eslint-disable-next-line <rule>[ <text>]                 *)
(*   ts        // @ts-ignore[ <text>]      (col0 FALSE: indented)          *)
(*   tsinline  // @ts-ignore // eslint-disable-line <rule>                 *)

ALines ==
    {Line("code", TRUE, "", ""), Line("blank", TRUE, "", "")}
    \cup {Line("comment", TRUE, "", t) : t \in Texts}
    \cup {Line("block", TRUE, r, "") : r \in {"", "no-console"}}
    \cup {Line("inline", TRUE, r, "") : r \in {"", "no-console"}}
    \cup {Line("inline", TRUE, "no-console", t) : t \in RuleTexts}
    \cup {Line("ts", TRUE, "", t) : t \in RuleTexts \cup {""}}
    \cup {Line("ts", FALSE, "", ""), Line("tsinline", TRUE, "no-console", "")}

\* TS_COMMENT_PATTERN.match(line): <<>> or <<group 1>>; the pattern is not
\* anchored (.*//) and is greedy, so group 1 is what follows the last //
TS_COMMENT_PATTERN(line) ==
    CASE line.kind = "comment"  -> <<line.text>>
      [] line.kind = "inline"   ->
            <<Cat(Cat("eslint-disable-next-line", line.rule), line.text)>>
      [] line.kind = "ts"       -> <<Cat("@ts-ignore", line.text)>>
      [] line.kind = "tsinline" -> <<Cat("eslint-disable-line", line.rule)>>
      [] OTHER                  -> <<>>

\* a match object: the pattern that matched and its groups
Match(re, groups) == <<[re |-> re, groups |-> groups]>>

\* ESLINT_IGNORE_ENTIRE_FILE_PATTERN.match(line): ^/\* ... \*/$
ESLINT_IGNORE_ENTIRE_FILE_PATTERN(line) ==
    IF line.col0 /\ line.kind = "block"
    THEN Match("ESLINT_IGNORE_ENTIRE_FILE_PATTERN", <<line.rule>>)
    ELSE <<>>

\* ESLINT_INLINE_IGNORE_PATTERN.match(line): the rule group takes the whole
\* remainder of the line
ESLINT_INLINE_IGNORE_PATTERN(line) ==
    IF line.kind \in {"inline", "tsinline"}
    THEN Match("ESLINT_INLINE_IGNORE_PATTERN", <<Cat(line.rule, line.text)>>)
    ELSE <<>>

\* TS_INLINE_IGNORE.match(line): ^//\s*@ts-..., no capture group
TS_INLINE_IGNORE(line) ==
    IF line.col0 /\ line.kind \in {"ts", "tsinline"}
    THEN Match("TS_INLINE_IGNORE", <<>>)
    ELSE <<>>

\* an `or` that prefers its right operand
Or_RightFirst(a, b) == IF b # <<>> THEN b ELSE a

\* Python's `a or b` on match objects
Or(a, b) == IF a # <<>> THEN a ELSE b

\* the condition of the `if rematch := (... or ... or ...)` of find_ignores
DirectiveMatch_A(line) ==
    Or(ESLINT_IGNORE_ENTIRE_FILE_PATTERN(line),
       Or(ESLINT_INLINE_IGNORE_PATTERN(line), TS_INLINE_IGNORE(line)))

\* the members of the enum IgnoreType
ESLINT_IGNORE_ESLINTIGNORE == "ignore from .eslintignore"
ESLINT_IGNORE_ENTIRE_FILE == "eslint-ignore (entire file)"
ESLINT_IGNORE_SINGLE_LINE == "eslint-ignore (single line)"
TSLINT_IGNORE_SINGLE_LINE == "ts-ignore (single line)"

\* SEARCH_IGNORE_TYPE_TUPLES: `hit` is the set of patterns whose source text
\* contains the search string
SEARCH_IGNORE_TYPE_TUPLES ==
    << [hit |-> {"ESLINT_IGNORE_ENTIRE_FILE_PATTERN"},
        result |-> ESLINT_IGNORE_ENTIRE_FILE],
       [hit |-> {"ESLINT_INLINE_IGNORE_PATTERN"},
        result |-> ESLINT_IGNORE_SINGLE_LINE],
       [hit |-> {"TS_INLINE_IGNORE"},
        result |-> TSLINT_IGNORE_SINGLE_LINE] >>

\* scan_eslint_ignore.get_ignore_type: the first tuple whose search string
\* occurs in the matched pattern, None when there is none
get_ignore_type(rematch) ==
    LET hits == {i \in DOMAIN SEARCH_IGNORE_TYPE_TUPLES :
                    rematch[1].re \in SEARCH_IGNORE_TYPE_TUPLES[i].hit}
    IN  IF hits = {} THEN PyNone
        ELSE SEARCH_IGNORE_TYPE_TUPLES[
                 CHOOSE i \in hits : \A j \in hits : i <= j].result

\* a get_reason that gathers the comments of the two lines above
get_reason_A_TwoAbove(n, ls) ==
    LET above(k) == IF n - k >= 1 THEN TS_COMMENT_PATTERN(ls[n - k]) ELSE <<>>
    IN  above(2) \o above(1)

\* scan_eslint_ignore.get_reason
get_reason_A(n, ls) ==
    LET previous_line == PyIndex(ls, n - 2)
        comment_match == TS_COMMENT_PATTERN(previous_line)
    IN  IF comment_match # <<>> THEN <<comment_match[1]>> ELSE <<>>

\* rule = None; try: rule = rematch.group(1).strip(); except IndexError: log
RuleOf_A(rematch) ==
    IF Len(rematch[1].groups) >= 1 THEN rematch[1].groups[1] ELSE PyNone

\* Ignore(filepath, line_number, line_number, rule, get_reason(..), type)
NewIgnore_A(filepath, n, rematch, ls) ==
    [filepath |-> filepath, start |-> n, end |-> n, rule |-> RuleOf_A(rematch),
     reason |-> get_reason_A(n, ls), type |-> get_ignore_type(rematch)]

\* one iteration of the while loop of scan_eslint_ignore.find_ignores
ScanLine_A(filepath, ls, n, st) ==
    LET line == strip(ls[n])
        rematch == DirectiveMatch_A(line)
    IN  IF rematch # <<>>
        THEN [ignores |-> Flush(st),
              ignore |-> <<NewIgnore_A(filepath, n, rematch, ls)>>]
        ELSE IF st.ignore # <<>>
        THEN [ignores |-> Append(st.ignores, st.ignore[1]), ignore |-> <<>>]
        ELSE st

-----------------------------------------------------------------------------
(* The .eslintignore file of Dialect A.                                    *)
(*   blank                                                                 *)
(*   hash      #                    (a comment with no text)               *)
(*   comment   # <text>             (col0 FALSE: indented)                 *)
(*   path      <text>               (col0 FALSE: indented)                 *)

ELines ==
    {Line("blank", TRUE, "", ""), Line("hash", TRUE, "", ""),
     Line("comment", TRUE, "", "(No reason provided)"),
     Line("path", TRUE, "", "build")}
    \cup {Line("comment", c, "", "why") : c \in BOOLEAN}
    \cup {Line("path", c, "", "dist") : c \in BOOLEAN}

\* the characters of a stripped line of the .eslintignore file
LineText(line) ==
    CASE line.kind = "path"    -> line.text
      [] line.kind = "hash"    -> "#"
      [] line.kind = "comment" -> "# " \o line.text
      [] OTHER                 -> ""

\* comment_pattern.match(line) of scan_eslint_ignore_file: #\s*(.+)$
comment_pattern(line) ==
    IF line.col0 /\ line.kind = "comment" THEN <<line.text>> ELSE <<>>

\* get_reason_for_ignore_file; n is the 0-based index of the line. When the
\* line above is no comment the function ends without a return: None
get_reason_for_ignore_file(n, ls) ==
    IF n < 1 THEN <<>>
    ELSE LET result == comment_pattern(PyIndex(ls, n - 1))
         IN  IF result # <<>> THEN <<result[1]>> ELSE NoneList

\* lines = [input.strip() for input in file.readlines()]
StripAll(ls) == [i \in 1..Len(ls) |-> strip(ls[i])]

\* one iteration of the for loop of scan_eslint_ignore_file; k is the
\* 1-based number of the line (line_number + 1 of the code), ls the stripped
\* lines, out the list built so far
ScanLine_E(ls, k, out) ==
    LET line == ls[k]
    IN  IF comment_pattern(line) # <<>> \/ LineText(line) = "" THEN out
        ELSE Append(out,
                    [filepath |-> LineText(line), start |-> k, end |-> k,
                     rule |-> PyNone,
                     reason |-> get_reason_for_ignore_file(k - 1, ls),
                     type |-> ESLINT_IGNORE_ESLINTIGNORE])

RECURSIVE ScanFrom_E(_, _, _)
ScanFrom_E(ls, k, out) ==
    IF k > Len(ls) THEN out ELSE ScanFrom_E(ls, k + 1, ScanLine_E(ls, k, out))

\* scan_eslint_ignore_file on an existing file holding the lines raw
scan_eslint_ignore_file(raw) == ScanFrom_E(StripAll(raw), 1, <<>>)

-----------------------------------------------------------------------------
(* find_ignores and scan_eslint_ignore_file, line by line.                 *)

LinesOf(d) == IF d = "A" THEN ALines ELSE IF d = "B" THEN BLines ELSE ELines

\* all files of at most n lines of dialect d
Files(d, n) == UNION {[1..k -> LinesOf(d)] : k \in 0..n}

ScanLine(d, filepath, ls, n, st) ==
    IF d = "A" THEN ScanLine_A(filepath, ls, n, st)
    ELSE ScanLine_B(filepath, ls, n, st)

\* the whole of find_ignores(filepath) on a file holding the lines ls
RECURSIVE ScanFrom(_, _, _, _, _)
ScanFrom(d, filepath, ls, n, st) ==
    IF n > Len(ls) THEN EndOfFile(st).ignores
    ELSE ScanFrom(d, filepath, ls, n + 1, ScanLine(d, filepath, ls, n, st))

find_ignores(d, filepath, ls) ==
    ScanFrom(d, filepath, ls, 1, [ignore |-> <<>>, ignores |-> <<>>])

\* the path of the file scanned line by line
ScanPath == "f"

MainIdle ==
    /\ pc = "idle"
    /\ args = [verify |-> FALSE, export_dir |-> PyNone, path |-> "file"]
    /\ eslintignore = <<>>
    /\ ignores_in_file = <<>>
    /\ all_ignores = <<>>
    /\ file_count = 0
    /\ visited = <<>>
    /\ listed = <<>>
    /\ report = [console |-> <<>>, csv |-> <<>>]
    /\ exit_code = -1

Init ==
    /\ dialect \in {"A", "B", "E"}
    /\ lines \in Files(dialect, MaxLines)
    /\ line_number = 0
    /\ ignore = <<>>
    /\ ignores = <<>>
    /\ scan_pc = "loop"
    /\ MainIdle

\* line_number, line = next(gen) and the body of the loop, Dialect A
NextLineA ==
    /\ dialect = "A" /\ scan_pc = "loop" /\ line_number < Len(lines)
    /\ LET st == ScanLine_A(ScanPath, lines, line_number + 1,
                            [ignore |-> ignore, ignores |-> ignores])
       IN  ignore' = st.ignore /\ ignores' = st.ignores
    /\ line_number' = line_number + 1
    /\ UNCHANGED <<dialect, lines, scan_pc, main_vars>>

\* line_number, line = next(gen) and the body of the loop, Dialect B
NextLineB ==
    /\ dialect = "B" /\ scan_pc = "loop" /\ line_number < Len(lines)
    /\ LET st == ScanLine_B(ScanPath, lines, line_number + 1,
                            [ignore |-> ignore, ignores |-> ignores])
       IN  ignore' = st.ignore /\ ignores' = st.ignores
    /\ line_number' = line_number + 1
    /\ UNCHANGED <<dialect, lines, scan_pc, main_vars>>

\* one iteration of `for line_number, line in enumerate(lines)` of
\* scan_eslint_ignore_file
NextLineE ==
    /\ dialect = "E" /\ scan_pc = "loop" /\ line_number < Len(lines)
    /\ ignores' = ScanLine_E(StripAll(lines), line_number + 1, ignores)
    /\ line_number' = line_number + 1
    /\ UNCHANGED <<dialect, lines, ignore, scan_pc, main_vars>>

\* the for loop of scan_eslint_ignore_file is exhausted: return ignores
ReturnE ==
    /\ dialect = "E" /\ scan_pc = "loop" /\ line_number = Len(lines)
    /\ scan_pc' = "returned"
    /\ UNCHANGED <<dialect, lines, line_number, ignore, ignores, main_vars>>

\* next(gen) raises StopIteration: flush the buffered record and return
StopIteration ==
    /\ dialect \in {"A", "B"}
    /\ scan_pc = "loop" /\ line_number = Len(lines)
    /\ LET st == EndOfFile([ignore |-> ignore, ignores |-> ignores])
       IN  ignore' = st.ignore /\ ignores' = st.ignores
    /\ scan_pc' = "returned"
    /\ UNCHANGED <<dialect, lines, line_number, main_vars>>

Next == NextLineA \/ NextLineB \/ StopIteration \/ NextLineE \/ ReturnE

Spec == Init /\ [][Next]_vars

-----------------------------------------------------------------------------
(* Ignore.values: the rendering of a record.                               *)

\* the text shown for a record without reason
NoReason == "(No reason provided)"

\* " ".join(seq)
RECURSIVE Join(_)
Join(seq) ==
    IF seq = <<>> THEN ""
    ELSE IF Len(seq) = 1 THEN seq[1]
    ELSE seq[1] \o " " \o Join(Tail(seq))

\* reason = " ".join(self.reason) if self.reason else "(No reason provided)"
RenderReason(reason) == IF TruthyList(reason) THEN Join(reason) ELSE NoReason

\* f"{self.start}-{self.end}"
LineSection(ig) == ToString(ig.start) \o "-" \o ToString(ig.end)

\* scan_pylint_ignore.Ignore.values
values_B(ig) ==
    [File |-> ig.filepath, LineSection |-> LineSection(ig),
     PylintIssue |-> ig.issue, Reason |-> RenderReason(ig.reason)]

\* scan_eslint_ignore.Ignore.values (for a record whose type is not None)
values_A(ig) ==
    [File |-> ig.filepath, LineSection |-> LineSection(ig), Type |-> ig.type,
     Rule |-> IF TruthyStr(ig.rule) THEN ig.rule ELSE "NA",
     Reason |-> RenderReason(ig.reason)]

values(d, ig) == IF d = "A" THEN values_A(ig) ELSE values_B(ig)

-----------------------------------------------------------------------------
(* catch_bad_ignores and export.                                           *)

\* the selection of catch_bad_ignores restricted to in-source records
bad_ignores_SourceOnly(d, igs) ==
    SelectSeq(igs, LAMBDA ig :
        /\ values(d, ig).Reason = NoReason
        /\ ~(d = "A" /\ ig.type = ESLINT_IGNORE_ESLINTIGNORE))

\* bad_ignores of catch_bad_ignores: the records whose rendered Reason is
\* the text "(No reason provided)"
bad_ignores(d, igs) ==
    SelectSeq(igs, LAMBDA ig : values(d, ig).Reason = NoReason)

\* the lines catch_bad_ignores logs, "%d. %s, lines %s"
Listing(d, bad) ==
    [i \in 1..Len(bad) |->
        [idx |-> i, File |-> values(d, bad[i]).File,
         LineSection |-> values(d, bad[i]).LineSection]]

\* Ignore.keys
keys(d) ==
    IF d = "A" THEN <<"File", "Line section", "Type", "Rule", "Reason">>
    ELSE <<"File", "Line section", "Pylint issue", "Reason">>

NoReport == [console |-> <<>>, csv |-> <<>>]

\* export(export_dir, ignores): one printed block per record, or the header
\* row and one row per record of <dialect>-ignores.csv
export(d, export_dir, igs) ==
    LET rows == [i \in 1..Len(igs) |-> values(d, igs[i])]
    IN  IF export_dir = PyNone THEN [console |-> rows, csv |-> <<>>]
        ELSE [console |-> <<>>, csv |-> <<keys(d)>> \o rows]

-----------------------------------------------------------------------------
(* main.                                                                   *)

\* the line shapes of the source files main meets: a directive and the
\* comments that may justify it
MainLines(d) ==
    IF d = "A"
    THEN {Line("block", TRUE, "no-console", "")}
         \cup {Line("comment", TRUE, "", t) : t \in Texts}
    ELSE {Line("codepylint", TRUE, "invalid-name", "")}
         \cup {Line("comment", TRUE, "", t) : t \in Texts}

\* the source files main meets
SourceFiles(d) == UNION {[1..k -> MainLines(d)] : k \in 0..MaxFileLines}

\* the .eslintignore files main meets
IgnoreFiles ==
    UNION {[1..k -> {Line("comment", TRUE, "", "why"),
                     Line("path", TRUE, "", "dist")}] : k \in 0..MaxFileLines}

\* find_ignores on a file that cannot be opened skips it without a word
find_ignores_in_Skip(d, filepath, readable, ls) ==
    [raised |-> FALSE,
     ignores |-> IF readable THEN find_ignores(d, filepath, ls) ELSE <<>>]

\* find_ignores(filepath) as main calls it: filepath.open / readlines raise
\* when the file cannot be opened or decoded, and nothing catches it
find_ignores_in(d, filepath, readable, ls) ==
    IF readable
    THEN [raised |-> FALSE, ignores |-> find_ignores(d, filepath, ls)]
    ELSE [raised |-> TRUE, ignores |-> <<>>]

\* scan_eslint_ignore_file(path): [] when the file does not exist
scan_eslint_ignore_path(exists, raw) ==
    IF exists THEN scan_eslint_ignore_file(raw) ELSE <<>>

\* a version of list.extend that puts the new items in front
extend_Prepend(list, items) == items \o list

\* list.extend(items): the items are appended in their order
extend(list, items) == list \o items

\* the name of the k-th path of the traversal
PathName(k) == "src" \o ToString(k)

ScanIdle ==
    /\ lines = <<>>
    /\ line_number = 0
    /\ ignore = <<>>
    /\ ignores = <<>>
    /\ scan_pc = "idle"

MainInit ==
    /\ dialect \in {"A", "B"}
    /\ ScanIdle
    /\ pc = "start"
    /\ args \in [verify : BOOLEAN, export_dir : {PyNone, "out"},
                 path : {"missing", "file", "dir"}]
    /\ eslintignore = <<>>
    /\ ignores_in_file = <<>>
    /\ all_ignores = <<>>
    /\ file_count = 0
    /\ visited = <<>>
    /\ listed = <<>>
    /\ report = NoReport
    /\ exit_code = -1

\* a test that takes every path for an existing one
path_exists_Always(path) == TRUE

\* path.exists()
path_exists(path) == path # "missing"

\* `if not path.exists(): logger.error(...); sys.exit(1)`
CheckPath ==
    /\ pc = "start"
    /\ IF ~path_exists(args.path)
       THEN pc' = "exited" /\ exit_code' = 1
       ELSE /\ pc' = IF dialect = "A" THEN "eslintignore" ELSE "scan"
            /\ UNCHANGED exit_code
    /\ UNCHANGED <<dialect, scan_vars, args, eslintignore, ignores_in_file,
                   all_ignores, file_count, visited, listed, report>>

\* ignores_in_file = scan_eslint_ignore_file(...); ignores.extend(...)
ScanEslintIgnore ==
    /\ pc = "eslintignore"
    /\ \E exists \in BOOLEAN, raw \in IgnoreFiles :
          /\ eslintignore' = IF exists THEN raw ELSE <<>>
          /\ ignores_in_file' = scan_eslint_ignore_path(exists, raw)
          /\ all_ignores' =
                extend(all_ignores, scan_eslint_ignore_path(exists, raw))
    /\ pc' = "scan"
    /\ UNCHANGED <<dialect, scan_vars, args, file_count, visited, listed,
                   report, exit_code>>

\* the traversal may yield one more path
MorePaths ==
    /\ pc = "scan"
    /\ args.path = "file" => visited = <<>>
    /\ args.path = "dir" => Len(visited) < MaxFiles

\* ignores.extend(find_ignores(file)); file_count += 1
FindIgnores ==
    /\ MorePaths
    /\ \E ls \in SourceFiles(dialect), readable \in BOOLEAN :
          LET filepath == PathName(Len(visited) + 1)
              r == find_ignores_in(dialect, filepath, readable, ls)
          IN  /\ visited' = Append(visited,
                    [filepath |-> filepath, excluded |-> FALSE,
                     readable |-> readable, found |-> r.ignores])
              /\ IF r.raised
                 THEN /\ pc' = "raised" /\ exit_code' = 1
                      /\ UNCHANGED <<all_ignores, file_count>>
                 ELSE /\ all_ignores' = extend(all_ignores, r.ignores)
                      /\ file_count' = file_count + 1
                      /\ pc' = IF args.path = "file" THEN "report" ELSE "scan"
                      /\ UNCHANGED exit_code
    /\ UNCHANGED <<dialect, scan_vars, args, eslintignore, ignores_in_file,
                   listed, report>>

\* `if any([file.is_relative_to(path) for path in ignore_dirs]): continue`
SkipIgnoredDir ==
    /\ MorePaths /\ args.path = "dir"
    /\ visited' = Append(visited,
          [filepath |-> PathName(Len(visited) + 1), excluded |-> TRUE,
           readable |-> TRUE, found |-> <<>>])
    /\ UNCHANGED <<dialect, scan_vars, pc, args, eslintignore, ignores_in_file,
                   all_ignores, file_count, listed, report, exit_code>>

\* the traversal is exhausted
GlobDone ==
    /\ pc = "scan" /\ args.path = "dir"
    /\ pc' = "report"
    /\ UNCHANGED <<dialect, scan_vars, args, eslintignore, ignores_in_file,
                   all_ignores, file_count, visited, listed, report, exit_code>>

\* `if not ignores: sys.exit(0)`, the warning, and `if args.verify:`
CheckIgnores ==
    /\ pc = "report"
    /\ IF all_ignores = <<>>
       THEN pc' = "exited" /\ exit_code' = 0
       ELSE /\ pc' = IF args.verify THEN "verify" ELSE "export"
            /\ UNCHANGED exit_code
    /\ UNCHANGED <<dialect, scan_vars, args, eslintignore, ignores_in_file,
                   all_ignores, file_count, visited, listed, report>>

\* catch_bad_ignores(ignores)
CatchBadIgnores ==
    /\ pc = "verify"
    /\ LET bad == bad_ignores(dialect, all_ignores)
       IN  IF bad = <<>>
           THEN pc' = "export" /\ UNCHANGED <<listed, exit_code>>
           ELSE /\ listed' = Listing(dialect, bad)
                /\ exit_code' = 1
                /\ pc' = "exited"
    /\ UNCHANGED <<dialect, scan_vars, args, eslintignore, ignores_in_file,
                   all_ignores, file_count, visited, report>>

\* export(export_dir, ignores), after which main returns
Export ==
    /\ pc = "export"
    /\ report' = export(dialect, args.export_dir, all_ignores)
    /\ exit_code' = 0
    /\ pc' = "exited"
    /\ UNCHANGED <<dialect, scan_vars, args, eslintignore, ignores_in_file,
                   all_ignores, file_count, visited, listed>>

MainNext ==
    \/ CheckPath \/ ScanEslintIgnore \/ FindIgnores \/ SkipIgnoredDir
    \/ GlobDone \/ CheckIgnores \/ CatchBadIgnores \/ Export

MainSpec == MainInit /\ [][MainNext]_vars

-----------------------------------------------------------------------------
(* Vocabulary of the properties of one file scan.                          *)

\* the line matches a directive pattern of its dialect
IsDirective(d, line) ==
    IF d = "A" THEN DirectiveMatch_A(strip(line)) # <<>>
    ELSE PYLINT_IGNORE_PATTERN(strip(line)) # <<>>

\* the line holds a comment, whatever else it holds
HasComment(line) == line.kind \notin {"code", "blank"}

\* a Python line that consists of a comment and is no directive
CommentOnly_B(line) == line.kind \in {"comment", "hash"}

\* the numbers of the directive lines among lines 1..n, increasing
DirectiveLines(d, ls, n) ==
    SelectSeq([i \in 1..n |-> i], LAMBDA i : IsDirective(d, ls[i]))

Starts(recs) == [i \in 1..Len(recs) |-> recs[i].start]

Returned == scan_pc = "returned"

\* the records of the scan: the closed ones and, while the loop runs, the
\* buffered one
Records == IF Returned THEN ignores ELSE ignores \o ignore

\* the number of consecutive comment-only lines right after line l
RECURSIVE CommentRun_B(_, _)
CommentRun_B(ls, l) ==
    IF l < Len(ls) /\ CommentOnly_B(ls[l + 1]) THEN 1 + CommentRun_B(ls, l + 1)
    ELSE 0

-----------------------------------------------------------------------------
(* C1: in both scanners, at every scan position, the closed records        *)
(* followed by the buffered record are exactly the directive lines met so  *)
(* far, one record per directive line, in file order; at most one record   *)
(* is buffered; on return the output list alone holds one record per       *)
(* directive line of the file, so every record was appended exactly once,  *)
(* and a file without directive lines yields the empty list.               *)
C1_OneRecordPerDirective ==
    (dialect \in {"A", "B"} /\ scan_pc \in {"loop", "returned"}) =>
        /\ Len(ignore) <= 1
        /\ Starts(Records) = DirectiveLines(dialect, lines, line_number)
        /\ Returned =>
              /\ Starts(ignores) = DirectiveLines(dialect, lines, Len(lines))
              /\ (DirectiveLines(dialect, lines, Len(lines)) = <<>>
                     => ignores = <<>>)

\* a returned scan of two directives on consecutive lines, the second one
\* on the last line of the file (closed by the end of the file)
C1_Witness ==
    /\ dialect \in {"A", "B"}
    /\ Returned /\ Len(ignores) = 2
    /\ ignores[2].start = ignores[1].start + 1
    /\ ignores[2].start = Len(lines)

(* C2: a record whose directive line has no same-line reason text, no      *)
(* comment on the line above (or no line above: line 1) and, in Dialect B, *)
(* no comment continuation below, has an empty justification and is        *)
(* rendered "(No reason provided)".                                        *)
C2_NoCommentNoReason ==
    (dialect \in {"A", "B"} /\ Returned) =>
        \A i \in 1..Len(ignores) :
            LET r == ignores[i]
                l == r.start
            IN  (/\ lines[l].text = ""
                 /\ (l = 1 \/ ~HasComment(lines[l - 1]))
                 /\ (dialect = "B" => (l = Len(lines) \/ ~HasComment(lines[l + 1]))))
                => /\ r.reason = <<>>
                   /\ values(dialect, r).Reason = NoReason

(* C3: in Dialect A a directive line that carries free text after the      *)
(* directive on its own comment line yields a record whose justification   *)
(* holds a fragment (the same-line text), so that the record is not one    *)
(* without reason.                                                         *)
C3_SameLineReasonCollected ==
    (Returned /\ dialect = "A") =>
        \A i \in 1..Len(ignores) :
            LET r == ignores[i]
                text == lines[r.start].text
            IN  text # "" => r.reason # <<>>

(* C5: in Dialect B a directive on line l followed by n comment-only       *)
(* lines, and then by a line without comment or by the end of the file,    *)
(* yields exactly one record, with start = l and end = l + n, whose        *)
(* justification ends with the texts of these n lines in file order.       *)
C5_ContinuationSpan ==
    (Returned /\ dialect = "B") =>
        \A l \in 1..Len(lines) :
            LET n == CommentRun_B(lines, l)
                after == l + n + 1
            IN  (/\ IsDirective("B", lines[l])
                 /\ (after > Len(lines) \/ lines[after].kind \in {"code", "blank"}))
                => /\ Cardinality({i \in 1..Len(ignores) : ignores[i].start = l}) = 1
                   /\ \A i \in 1..Len(ignores) :
                        ignores[i].start = l =>
                          LET r == ignores[i]
                              m == Len(r.reason)
                          IN  /\ r.end = l + n
                              /\ m >= n
                              /\ \A k \in 1..n :
                                    r.reason[m - n + k] = lines[l + k].text

(* C6: in Dialect B, at every scan position and for every record, closed   *)
(* or buffered, the justification is: at most one fragment from the        *)
(* backward lookup (for a directive below line 1, the comment text of the  *)
(* line above), then the same-line reason if the directive has one, then   *)
(* the texts of the continuation lines start+1..end in increasing line     *)
(* order.                                                                  *)
C6_FragmentOrder ==
    (dialect = "B" /\ scan_pc \in {"loop", "returned"}) =>
        \A i \in 1..Len(Records) :
            LET r == Records[i]
                l == r.start
                same == IF lines[l].text # "" THEN <<lines[l].text>> ELSE <<>>
                conts == [k \in 1..(r.end - l) |->
                            PYTHON_COMMENT_PATTERN(strip(lines[l + k]))[1]]
                p == Len(r.reason) - Len(same) - Len(conts)
            IN  /\ \A k \in 1..(r.end - l) :
                      PYTHON_COMMENT_PATTERN(strip(lines[l + k])) # <<>>
                /\ p \in {0, 1}
                /\ SubSeq(r.reason, p + 1, p + Len(same)) = same
                /\ SubSeq(r.reason, p + Len(same) + 1, Len(r.reason)) = conts
                /\ (p = 1 /\ l > 1) =>
                      r.reason = <<PYTHON_COMMENT_PATTERN(lines[l - 1])[1]>>
                                     \o same \o conts

\* a returned record below line 1 with all three kinds of fragment
C6_Witness ==
    /\ Returned /\ dialect = "B"
    /\ \E i \in 1..Len(ignores) :
          /\ ignores[i].start > 1
          /\ ignores[i].end > ignores[i].start
          /\ lines[ignores[i].start].text # ""
          /\ Len(ignores[i].reason) = 3

(* C10: scan_eslint_ignore_file yields one record per line that is neither *)
(* blank nor a comment, in file order, and none for the other lines; each  *)
(* record has the stripped line as location, start = end = the number of   *)
(* the line, no rule, the ignore-list type, and as justification the       *)
(* comment text of the line above when that line is a comment, nothing     *)
(* otherwise.                                                              *)
C10_IgnoreListRecords ==
    (dialect = "E" /\ Returned) =>
        /\ Starts(ignores) =
              SelectSeq([i \in 1..Len(lines) |-> i],
                        LAMBDA i : lines[i].kind = "path")
        /\ \A i \in 1..Len(ignores) :
              LET r == ignores[i]
                  l == r.start
              IN  /\ r.filepath = LineText(strip(lines[l]))
                  /\ r.end = l
                  /\ r.rule = PyNone
                  /\ r.type = ESLINT_IGNORE_ESLINTIGNORE
                  /\ IF l > 1 /\ lines[l - 1].kind = "comment"
                     THEN r.reason = <<lines[l - 1].text>>
                     ELSE ~TruthyList(r.reason)

-----------------------------------------------------------------------------
(* Vocabulary of the properties of main.                                   *)

\* a record without justification
Unjustified(ig) == ~TruthyList(ig.reason)

Exited == pc = "exited"

(* C4: with the verification flag set, a non-empty aggregate and no record *)
(* the gate reports, the run ends with exit code 0 and emits no report:    *)
(* nothing is printed and no CSV is written.                               *)
C4_VerifyPassNoReport ==
    (/\ Exited /\ args.verify /\ all_ignores # <<>>
     /\ bad_ignores(dialect, all_ignores) = <<>>)
    => (exit_code = 0 /\ report = NoReport)

(* C7: with the verification flag set and at least one aggregated record   *)
(* without justification, the records listed are exactly the records       *)
(* without justification, in aggregate order, the run exits with code 1    *)
(* and no report is emitted.                                               *)
C7_ExactlyUnjustifiedListed ==
    (/\ Exited /\ args.verify
     /\ \E i \in 1..Len(all_ignores) : Unjustified(all_ignores[i]))
    => /\ listed = Listing(dialect, SelectSeq(all_ignores, Unjustified))
       /\ exit_code = 1
       /\ report = NoReport

(* C8: in Dialect A under verification, once the gate has run, every       *)
(* ignore-list record whose path line has no comment on the line above is  *)
(* among the listed records, the exit code is 1 and no report is emitted.  *)
C8_IgnoreListGated ==
    (dialect = "A" /\ args.verify /\ pc \in {"export", "exited"}) =>
        \A i \in 1..Len(ignores_in_file) :
            LET r == ignores_in_file[i]
                l == r.start
            IN  (l = 1 \/ comment_pattern(strip(eslintignore[l - 1])) = <<>>)
                => /\ exit_code = 1
                   /\ report = NoReport
                   /\ \E k \in 1..Len(listed) :
                         /\ listed[k].File = r.filepath
                         /\ listed[k].LineSection = LineSection(r)

\* a run that fails only because of an ignore-list record below line 1
\* whose line above is no comment, every in-source record being justified
C8_Witness ==
    /\ dialect = "A" /\ args.verify /\ Exited /\ exit_code = 1
    /\ Len(all_ignores) > Len(ignores_in_file)
    /\ \A i \in 1..Len(all_ignores) :
          i > Len(ignores_in_file) => ~Unjustified(all_ignores[i])
    /\ \E i \in 1..Len(ignores_in_file) :
          /\ ignores_in_file[i].start > 1
          /\ ignores_in_file[i].reason = NoneList
          /\ \E k \in 1..Len(listed) :
                listed[k].LineSection = LineSection(ignores_in_file[i])

(* C9: a file handed to find_ignores that cannot be opened or decoded ends *)
(* the run where it is: it is the last path the traversal reached, no      *)
(* step of main follows it, no file is counted for it, nothing is listed   *)
(* and no report is emitted, whatever the files before it held.            *)
C9_UnreadableAborts ==
    \A i \in 1..Len(visited) :
        (~visited[i].excluded /\ ~visited[i].readable) =>
            /\ pc = "raised"
            /\ i = Len(visited)
            /\ ~ENABLED MainNext
            /\ file_count =
                  Cardinality({j \in 1..Len(visited) :
                                 ~visited[j].excluded /\ visited[j].readable})
            /\ listed = <<>>
            /\ report = NoReport

\* the second file of a directory cannot be read after the first one gave
\* records
C9_Witness ==
    /\ pc = "raised" /\ Len(visited) = 2
    /\ visited[1].readable /\ visited[1].found # <<>>
    /\ ~visited[2].readable
    /\ all_ignores # <<>>

-----------------------------------------------------------------------------
\* the records find_ignores returned for the paths of the traversal, file
\* after file
RECURSIVE FoundUpTo(_)
FoundUpTo(n) == IF n = 0 THEN <<>> ELSE FoundUpTo(n - 1) \o visited[n].found

\* what the report shows of a record: where it is and its reason
Entry(row) ==
    [File |-> row.File, LineSection |-> row.LineSection, Reason |-> row.Reason]

EntryOf(ig) ==
    [File |-> ig.filepath, LineSection |-> LineSection(ig),
     Reason |-> RenderReason(ig.reason)]

\* the entries of the report emitted, in the order they were written
ReportEntries ==
    IF report.csv # <<>>
    THEN [i \in 1..(Len(report.csv) - 1) |-> Entry(report.csv[i + 1])]
    ELSE [i \in 1..Len(report.console) |-> Entry(report.console[i])]

(* C11: at every point of main the aggregate is the ignore-list records    *)
(* (Dialect A) followed by the records of each scanned file, file after    *)
(* file in traversal order, each file's records in the order find_ignores  *)
(* returned them; and a report, once emitted, has one entry per record of  *)
(* the aggregate, in the order of the aggregate.                           *)
C11_AggregateInTraversalOrder ==
    /\ all_ignores = ignores_in_file \o FoundUpTo(Len(visited))
    /\ report # NoReport =>
          ReportEntries = [i \in 1..Len(all_ignores) |-> EntryOf(all_ignores[i])]

\* a report over ignore-list records and the records of two files, the
\* first file holding two records
C11_Witness ==
    /\ dialect = "A" /\ Exited /\ report # NoReport
    /\ ignores_in_file # <<>>
    /\ Len(visited) = 2
    /\ Len(visited[1].found) = 2 /\ visited[2].found # <<>>
    /\ Len(ReportEntries) = Len(ignores_in_file) + 3

-----------------------------------------------------------------------------
\* the directive shapes of Dialect A a stripped line matches, as the kinds
\* they stand for, in the order whole-file block, line-scoped, type-checker
ShapesMatched(line) ==
    SelectSeq(<<[m |-> ESLINT_IGNORE_ENTIRE_FILE_PATTERN(line),
                 kind |-> ESLINT_IGNORE_ENTIRE_FILE],
                [m |-> ESLINT_INLINE_IGNORE_PATTERN(line),
                 kind |-> ESLINT_IGNORE_SINGLE_LINE],
                [m |-> TS_INLINE_IGNORE(line),
                 kind |-> TSLINT_IGNORE_SINGLE_LINE]>>,
              LAMBDA s : s.m # <<>>)

(* C12: in Dialect A, at every scan position, every record, closed or      *)
(* buffered, stems from a line that matches at least one directive shape,  *)
(* is the only record of that line, and has the kind of the earliest shape *)
(* its line matches in the order whole-file block, line-scoped,            *)
(* type-checker; the kind is never absent, and the three kinds differ.     *)
C12_EarliestShapeWins ==
    (dialect = "A" /\ scan_pc \in {"loop", "returned"}) =>
        /\ Cardinality({ESLINT_IGNORE_ENTIRE_FILE, ESLINT_IGNORE_SINGLE_LINE,
                        TSLINT_IGNORE_SINGLE_LINE}) = 3
        /\ \A i \in 1..Len(Records) :
              LET r == Records[i]
                  shapes == ShapesMatched(strip(lines[r.start]))
              IN  /\ shapes # <<>>
                  /\ r.type = shapes[1].kind
                  /\ r.type # PyNone
                  /\ \A j \in 1..Len(Records) :
                        Records[j].start = r.start => j = i

\* a returned record of a line that matches two shapes, the line-scoped
\* and the type-checker one
C12_Witness ==
    /\ dialect = "A" /\ Returned
    /\ \E i \in 1..Len(ignores) :
          /\ Len(ShapesMatched(strip(lines[ignores[i].start]))) = 2
          /\ ignores[i].type = ESLINT_IGNORE_SINGLE_LINE

(* C13: in Dialect A, at every scan position, every record, closed or      *)
(* buffered, has start = end = the number of its directive line, and its   *)
(* justification owes nothing to the lines after the directive: each of    *)
(* its fragments is the comment text of a line at or above the directive.  *)
C13_NoExtensionBelow ==
    (dialect = "A" /\ scan_pc \in {"loop", "returned"}) =>
        \A i \in 1..Len(Records) :
            LET r == Records[i]
            IN  /\ IsDirective("A", lines[r.start])
                /\ r.end = r.start
                /\ \A f \in 1..Len(r.reason) :
                      \E k \in 1..r.start :
                          TS_COMMENT_PATTERN(lines[k]) = <<r.reason[f]>>

(* C14: in every step of a scan (both find_ignores loops) the output list  *)
(* keeps all its records, unchanged and in place, and grows by at most one *)
(* record, appended at its end; the record appended is the record that was *)
(* buffered before the step, as it was; and when the loop goes on after an *)
(* append, the buffer is empty or holds a record newly opened at the       *)
(* current line, so that only a record not yet appended is ever extended.  *)
C14_ClosedRecordsImmutable ==
    [][(dialect \in {"A", "B"} /\ scan_pc = "loop") =>
          /\ Len(ignores') \in {Len(ignores), Len(ignores) + 1}
          /\ SubSeq(ignores', 1, Len(ignores)) = ignores
          /\ Len(ignores') = Len(ignores) + 1 =>
                /\ ignore # <<>>
                /\ ignores' = Append(ignores, ignore[1])
                /\ scan_pc' = "loop" =>
                      \/ ignore' = <<>>
                      \/ ignore'[1].start = line_number'
          /\ (ignore # <<>> /\ ignore' # <<>> /\ ignore' # ignore) =>
                \/ ignore'[1].start = line_number'
                \/ /\ Len(ignores') = Len(ignores)
                   /\ ignore'[1].start = ignore[1].start]_vars

\* a scan that went on after closing a record that had been extended
C14_Witness ==
    /\ dialect = "B" /\ Returned /\ Len(ignores) = 2
    /\ ignores[1].end > ignores[1].start
    /\ Len(ignores[1].reason) >= 2

(* C15: when the scan target does not exist, main goes from its start      *)
(* straight to the exit with code 1 and nothing follows: neither the       *)
(* .eslintignore file nor any source file is scanned, the aggregate stays  *)
(* empty, nothing is listed and no report is emitted.                      *)
C15_MissingTargetExits ==
    args.path = "missing" =>
        /\ pc \in {"start", "exited"}
        /\ Exited => (exit_code = 1 /\ ~ENABLED MainNext)
        /\ visited = <<>> /\ file_count = 0
        /\ eslintignore = <<>> /\ ignores_in_file = <<>>
        /\ all_ignores = <<>>
        /\ listed = <<>>
        /\ report = NoReport

\* the run of the eslint script on a missing target has ended
C15_Witness ==
    dialect = "A" /\ args.path = "missing" /\ Exited /\ exit_code = 1

-----------------------------------------------------------------------------
\* the fragments a record owes to the backward lookup: what its
\* justification holds before the same-line reason and the continuation
\* lines (Dialect A has neither)
LookupPart(d, r, ls) ==
    IF d = "A" THEN r.reason
    ELSE SubSeq(r.reason, 1,
                Len(r.reason) - (r.end - r.start)
                    - (IF ls[r.start].text # "" THEN 1 ELSE 0))

\* the comment text the lookup of dialect d finds on a line, <<>> if none
CommentOf(d, line) ==
    IF d = "A" THEN TS_COMMENT_PATTERN(line) ELSE PYTHON_COMMENT_PATTERN(line)

(* C16: in both dialects, at every scan position and for every record,     *)
(* the backward lookup contributes at most one fragment; for a directive   *)
(* below line 1 that fragment is determined by the line directly above     *)
(* alone (its comment text, or nothing), whatever the lines further above  *)
(* hold; and in Dialect A a directive with a comment line directly above   *)
(* has exactly that comment's text as justification and start = end = the  *)
(* directive line.                                                         *)
C16_OnlyLineAbove ==
    (dialect \in {"A", "B"} /\ scan_pc \in {"loop", "returned"}) =>
        \A i \in 1..Len(Records) :
            LET r == Records[i]
                l == r.start
            IN  /\ Len(LookupPart(dialect, r, lines)) <= 1
                /\ l >= 2 =>
                      LookupPart(dialect, r, lines)
                          = CommentOf(dialect, lines[l - 1])
                /\ (dialect = "A" /\ l >= 2 /\ lines[l - 1].kind = "comment")
                      => /\ r.reason = <<lines[l - 1].text>>
                         /\ r.start = l /\ r.end = l

\* a directive on line 3 below two comment lines with different texts,
\* justified by the text of line 2 alone
C16_Witness ==
    /\ dialect = "A" /\ Returned /\ Len(lines) = 3
    /\ lines[1].kind = "comment" /\ lines[2].kind = "comment"
    /\ lines[1].text # lines[2].text
    /\ \E i \in 1..Len(ignores) :
          ignores[i].start = 3 /\ ignores[i].reason = <<lines[2].text>>

(* C17: in Dialect B, for every record of a directive below line 1 whose   *)
(* line above is a comment-only line that the continuation branch accepts  *)
(* (it matches the comment pattern once stripped), indented or not, the    *)
(* backward lookup contributes exactly the text that line would contribute *)
(* as a continuation.                                                      *)
C17_CommentAboveAsBelow ==
    (dialect = "B" /\ Returned) =>
        \A i \in 1..Len(ignores) :
            LET r == ignores[i]
                l == r.start
            IN  (/\ l >= 2
                 /\ CommentOnly_B(lines[l - 1])
                 /\ PYTHON_COMMENT_PATTERN(strip(lines[l - 1])) # <<>>)
                => LookupPart("B", r, lines)
                      = PYTHON_COMMENT_PATTERN(strip(lines[l - 1]))

-----------------------------------------------------------------------------
\* a directive line of Dialect A written without any rule
NoRuleWritten(line) ==
    line.kind \in {"block", "inline"} /\ line.rule = "" /\ line.text = ""

\* a directive line of Dialect A matched by the type-checker shape alone
TypeCheckerOnly(line) == line.kind = "ts"

(* C18: in Dialect A, at every scan position, the record of a directive    *)
(* written with an empty rule list and the record of a type-checker        *)
(* directive both have rule = None, and both are rendered with Rule "NA".  *)
C18_EmptyRuleIsNone ==
    (dialect = "A" /\ scan_pc \in {"loop", "returned"}) =>
        \A i \in 1..Len(Records) :
            LET r == Records[i]
                line == lines[r.start]
            IN  (NoRuleWritten(line) \/ TypeCheckerOnly(line))
                => /\ r.rule = PyNone
                   /\ values_A(r).Rule = "NA"

-----------------------------------------------------------------------------
\* the records that took line k as a continuation line
ContinuedBy(k) ==
    {i \in 1..Len(ignores) : ignores[i].start < k /\ k <= ignores[i].end}

\* the records whose directive stands directly below line k and whose
\* backward lookup gave a fragment
JustifiedFromAbove(k) ==
    {i \in 1..Len(ignores) :
        /\ ignores[i].start = k + 1
        /\ LookupPart(dialect, ignores[i], lines) # <<>>}

(* C19: in one file scan (both dialects), a comment line that is no        *)
(* directive gives a fragment to at most one record: it is not both a      *)
(* continuation line of the record above it and the preceding-line         *)
(* justification of the directive below it.                                *)
C19_CommentUsedOnce ==
    (dialect \in {"A", "B"} /\ Returned) =>
        \A k \in 1..Len(lines) :
            lines[k].kind = "comment" =>
                Cardinality(ContinuedBy(k) \cup JustifiedFromAbove(k)) <= 1

-----------------------------------------------------------------------------
\* the file holds directive lines only, none with a text of its own
OnlyBareDirectives(d, ls) ==
    /\ ls # <<>>
    /\ \A k \in 1..Len(ls) : IsDirective(d, ls[k]) /\ ls[k].text = ""

(* C20: in both dialects the backward lookup gives no fragment to a        *)
(* directive whose line above is itself a directive, and a file made of    *)
(* directive lines only (none carrying a reason text) yields only records  *)
(* with an empty justification, all of which the policy gate selects.      *)
C20_NoDirectiveAsReason ==
    (dialect \in {"A", "B"} /\ Returned) =>
        /\ \A i \in 1..Len(ignores) :
              LET r == ignores[i]
                  l == r.start
              IN  (l >= 2 /\ IsDirective(dialect, lines[l - 1]))
                  => LookupPart(dialect, r, lines) = <<>>
        /\ OnlyBareDirectives(dialect, lines) =>
              /\ \A i \in 1..Len(ignores) : ignores[i].reason = <<>>
              /\ bad_ignores(dialect, ignores) = ignores

-----------------------------------------------------------------------------
(* C21: in every scan (both find_ignores loops and the .eslintignore       *)
(* scanner), at every scan position, every record, closed or buffered,     *)
(* has 1 <= start <= end <= the number of lines read so far (hence of the  *)
(* file), and each record ends before the next one starts, so that the     *)
(* starts increase strictly along the output and no two spans overlap.     *)
C21_SpansOrderedDisjoint ==
    scan_pc \in {"loop", "returned"} =>
        /\ \A i \in 1..Len(Records) :
              /\ 1 <= Records[i].start
              /\ Records[i].start <= Records[i].end
              /\ Records[i].end <= line_number
              /\ line_number <= Len(lines)
        /\ \A i \in 1..(Len(Records) - 1) :
              /\ Records[i].start < Records[i + 1].start
              /\ Records[i].end < Records[i + 1].start

\* a record extended to the line right above the next directive, which
\* stands on the last line of the file
C21_Witness ==
    /\ dialect = "B" /\ Returned /\ Len(ignores) = 2
    /\ ignores[1].start < ignores[1].end
    /\ ignores[2].start = ignores[1].end + 1
    /\ ignores[2].end = Len(lines)

====
